---- MODULE Spec2Model ----
(***************************************************************************)
(* Model of the safety-RAG ingestion scripts:                              *)
(*   attached_assets/build_safety_rag_db_1754373457149.py  (build script)  *)
(*   scripts/pdf_chunking.py                               (chunk script)  *)
(*                                                                         *)
(* Text is a sequence of one-character strings.  TLA+ strings are ASCII,   *)
(* so the Korean characters of the clause marker are written               *)
(*   "J" for U+C81C (je)  and  "Z" for U+C870 (jo),                        *)
(* and the Korean field labels are written as one-symbol ASCII tokens.     *)
(***************************************************************************)
EXTENDS Naturals, Sequences, FiniteSets, TLC

VARIABLES
    pc,              \* build script: position in the linear script
    files,           \* build script: the three input files on disk
    accident_cases,  \* json.load(ACCIDENT_JSON)
    accident_docs,
    education_data,  \* json.load(EDUCATION_JSON)
    edu_docs,
    full_text,       \* "\n".join(page texts of LAW_PDF)
    law_docs,
    all_docs,        \* accident_chunks + edu_chunks + law_chunks
    store,           \* entries of the Chroma collection in CHROMA_DB_DIR
    completed,       \* runs of the build script that reached its last line
    cli_pc,          \* chunk script: position
    argc,            \* chunk script: len(sys.argv)
    pdf_file,        \* chunk script: the file at pdf_path
    out_writable,    \* chunk script: whether output_path can be written
    documents,       \* chunk script: loader.load()
    chunks,          \* chunk script: the JSON objects built from the chunks
    output_file,     \* chunk script: what was written to output_path
    stdout,          \* chunk script: the messages printed
    chunk_count,     \* chunk script: the value chunk_pdf returned
    exit_status,     \* chunk script: <<status>> once the process has exited
    sp_pc,           \* splitter: position (an application, or its steps)
    sp_text,         \* splitter: the text given to split_text
    splitter,        \* splitter: [chunk_size, chunk_overlap, separators]
    sp_chunks,       \* splitter: the chunks produced (final_chunks)
    sp_stack,        \* splitter: the active calls of _split_text
    sp_merge         \* splitter: the locals of the running _merge_splits

buildVars == <<pc, files, accident_cases, accident_docs, education_data,
               edu_docs, full_text, law_docs, all_docs, store, completed>>

cliVars == <<cli_pc, argc, pdf_file, out_writable, documents, chunks,
             output_file, stdout, chunk_count, exit_status>>

splitterVars == <<sp_pc, sp_text, splitter, sp_chunks, sp_stack, sp_merge>>

vars == <<buildVars, cliVars, splitterVars>>

-----------------------------------------------------------------------------
(* Strings *)

\* str.strip() removes whitespace; these are the whitespace characters of
\* the model's alphabets.
Whitespace == {" ", "\n"}

RECURSIVE LStrip(_)
LStrip(s) ==
    IF s # <<>> /\ Head(s) \in Whitespace THEN LStrip(Tail(s)) ELSE s

RECURSIVE RStrip(_)
RStrip(s) ==
    IF s # <<>> /\ s[Len(s)] \in Whitespace
    THEN RStrip(SubSeq(s, 1, Len(s) - 1))
    ELSE s

\* str.strip()
Strip(s) == RStrip(LStrip(s))

\* sep.join(parts)
RECURSIVE Join(_, _)
Join(sep, parts) ==
    IF parts = <<>> THEN <<>>
    ELSE IF Len(parts) = 1 THEN parts[1]
    ELSE parts[1] \o sep \o Join(sep, Tail(parts))

\* s occurs in t starting at index i
OccursAt(s, t, i) ==
    /\ i >= 1
    /\ i + Len(s) - 1 <= Len(t)
    /\ SubSeq(t, i, i + Len(s) - 1) = s

\* all sequences over S of length at most n
SeqsUpTo(S, n) == UNION {[1..k -> S] : k \in 0..n}

-----------------------------------------------------------------------------
(* Clause segmentation of the law PDF (build script, step 4) *)

Digits == {"1"}

\* index of the last character of the longest run of digits starting at i
\* (i - 1 when t[i] is no digit): the greedy \d+
RECURSIVE DigitsEnd(_, _)
DigitsEnd(t, i) ==
    IF i <= Len(t) /\ t[i] \in Digits THEN DigitsEnd(t, i + 1) ELSE i - 1

\* the regex  je \d+ jo  matched at index i: the index of its last
\* character, 0 when it does not match there
MarkerEnd(t, i) ==
    IF i >= 1 /\ i <= Len(t) /\ t[i] = "J"
    THEN LET d == DigitsEnd(t, i + 1)
         IN  IF d >= i + 1 /\ d + 1 <= Len(t) /\ t[d + 1] = "Z"
             THEN d + 1
             ELSE 0
    ELSE 0

\* first index >= i where the marker regex matches, Len(t) + 1 when none
RECURSIVE NextMarker(_, _)
NextMarker(t, i) ==
    IF i > Len(t) THEN Len(t) + 1
    ELSE IF MarkerEnd(t, i) # 0 THEN i
    ELSE NextMarker(t, i + 1)

\* A greedy body (.* in place of .*?) runs to the end of the text.
MatchEndGreedy(t, s) == Len(t) + 1

\* One match of  (je\d+jo.*?)(?=je\d+jo|\Z)  with re.DOTALL starting at s:
\* the lazy body stops at the first position at or after the marker's end
\* where the lookahead holds (the next marker, or the end of the text).
\* The result is the index just past the match.
MatchEnd(t, s) == NextMarker(t, MarkerEnd(t, s) + 1)

\* re.findall(pattern, full_text, re.DOTALL), scanning from index pos
RECURSIVE FindAll(_, _)
FindAll(t, pos) ==
    LET s == NextMarker(t, pos)
    IN  IF s > Len(t) THEN <<>>
        ELSE LET e == MatchEnd(t, s)
             IN  <<SubSeq(t, s, e - 1)>> \o FindAll(t, e)

\* match.split("\n")[0]
RECURSIVE FirstLine(_)
FirstLine(s) ==
    IF s = <<>> \/ Head(s) = "\n" THEN <<>>
    ELSE <<Head(s)>> \o FirstLine(Tail(s))

\* re.search(r"je(\d+)jo", header_line): group(1), or "" when no match
LawNumber(header_line) ==
    LET s == NextMarker(header_line, 1)
    IN  IF s > Len(header_line) THEN <<>>
        ELSE SubSeq(header_line, s + 1, MarkerEnd(header_line, s) - 1)

\* the Document built from one match (loop body, lines 78-88)
LawDoc(match) ==
    LET header_line == Strip(FirstLine(match))
    IN  [page_content |-> Strip(match),
         metadata |-> [type |-> "law",
                       law_number |-> LawNumber(header_line),
                       title |-> header_line,
                       source |-> "law_source"]]

\* A segmentation that falls back to one Document of the whole text when
\* the pattern matches nowhere.
LawDocsWholeTextFallback(t) ==
    LET matches == FindAll(t, 1)
    IN  IF matches = <<>> THEN <<LawDoc(t)>>
        ELSE [k \in 1..Len(matches) |-> LawDoc(matches[k])]

\* lines 74-88: a Document per match
LawDocs(t) ==
    LET matches == FindAll(t, 1)
    IN  [k \in 1..Len(matches) |-> LawDoc(matches[k])]

-----------------------------------------------------------------------------
(* RecursiveCharacterTextSplitter, as both scripts configure it            *)
(* (keep_separator and strip_whitespace at their defaults, True;           *)
(*  length_function = len).  A splitter is a record                        *)
(*  [chunk_size, chunk_overlap, separators].                               *)

\* index of the first occurrence of sep in t, 0 when there is none
RECURSIVE FindFrom(_, _, _)
FindFrom(sep, t, i) ==
    IF i + Len(sep) - 1 > Len(t) THEN 0
    ELSE IF OccursAt(sep, t, i) THEN i
    ELSE FindFrom(sep, t, i + 1)

\* re.split(sep, t) without the separators: the pieces between the
\* successive non-overlapping occurrences of sep
RECURSIVE Pieces(_, _)
Pieces(t, sep) ==
    LET i == FindFrom(sep, t, 1)
    IN  IF i = 0 THEN <<t>>
        ELSE <<SubSeq(t, 1, i - 1)>>
             \o Pieces(SubSeq(t, i + Len(sep), Len(t)), sep)

NonEmpty(ss) == SelectSeq(ss, LAMBDA s : s # <<>>)

\* A split that has no character-level fallback: the empty separator
\* leaves the text whole.
SplitWithRegexNoChars(t, sep) ==
    IF sep = <<>>
    THEN NonEmpty(<<t>>)
    ELSE LET ps == Pieces(t, sep)
         IN  NonEmpty(<<ps[1]>> \o [k \in 1..(Len(ps) - 1) |-> sep \o ps[k + 1]])

\* A split that drops the separators (keep_separator = False).
SplitWithRegexDropSeparator(t, sep) ==
    IF sep = <<>>
    THEN [k \in 1..Len(t) |-> <<t[k]>>]
    ELSE NonEmpty(Pieces(t, sep))

\* _split_text_with_regex(text, separator, keep_separator = True): each
\* separator is kept at the start of the piece that follows it; with the
\* empty separator the text is split into its characters
SplitWithRegex(t, sep) ==
    IF sep = <<>>
    THEN [k \in 1..Len(t) |-> <<t[k]>>]
    ELSE LET ps == Pieces(t, sep)
         IN  NonEmpty(<<ps[1]>> \o [k \in 1..(Len(ps) - 1) |-> sep \o ps[k + 1]])

\* "".join(docs)
RECURSIVE Concat(_)
Concat(ss) == IF ss = <<>> THEN <<>> ELSE Head(ss) \o Concat(Tail(ss))

\* _join_docs(docs, ""): the joined text stripped, as a list of zero (None)
\* or one document
JoinDocs(current_doc) ==
    LET text == Strip(Concat(current_doc))
    IN  IF text = <<>> THEN <<>> ELSE <<text>>

\* the total length the merge loop keeps of current_doc (separator "")
Total(current_doc) == Len(Concat(current_doc))

\* the condition of the while loop of _merge_splits
PopWhile(sp, current_doc, len_d) ==
    \/ Total(current_doc) > sp.chunk_overlap
    \/ (Total(current_doc) + len_d > sp.chunk_size /\ Total(current_doc) > 0)

\* A pop that leaves current_doc as it is.
PoppedNothing(current_doc) == current_doc

\* the body of the while loop: current_doc = current_doc[1:]
Popped(current_doc) == Tail(current_doc)

RECURSIVE PopLoop(_, _, _)
PopLoop(sp, current_doc, len_d) ==
    IF PopWhile(sp, current_doc, len_d)
    THEN PopLoop(sp, Popped(current_doc), len_d)
    ELSE current_doc

\* the for loop of _merge_splits(splits, "") from the state
\* (current_doc, docs), and its final _join_docs
RECURSIVE MergeLoop(_, _, _, _)
MergeLoop(sp, splits, current_doc, docs) ==
    IF splits = <<>> THEN docs \o JoinDocs(current_doc)
    ELSE LET d == Head(splits)
             flush == Total(current_doc) + Len(d) > sp.chunk_size
                      /\ current_doc # <<>>
         IN  IF flush
             THEN MergeLoop(sp, Tail(splits),
                            Append(PopLoop(sp, current_doc, Len(d)), d),
                            docs \o JoinDocs(current_doc))
             ELSE MergeLoop(sp, Tail(splits), Append(current_doc, d), docs)

MergeSplits(sp, splits) == MergeLoop(sp, splits, <<>>, <<>>)

\* the loop of _split_text that picks the separator: the index in
\* separators of the first one that is "" or occurs in the text, 0 when
\* none does
RECURSIVE PickSeparator(_, _, _)
PickSeparator(text, separators, i) ==
    IF i > Len(separators) THEN 0
    ELSE IF separators[i] = <<>> \/ FindFrom(separators[i], text, 1) # 0 THEN i
    ELSE PickSeparator(text, separators, i + 1)

\* separator after that loop (the last of the list when none was picked)
Separator(text, separators) ==
    LET i == PickSeparator(text, separators, 1)
    IN  IF i = 0 THEN separators[Len(separators)] ELSE separators[i]

\* new_separators after that loop (set only when a separator other than ""
\* was found in the text)
NewSeparators(text, separators) ==
    LET i == PickSeparator(text, separators, 1)
    IN  IF i = 0 \/ separators[i] = <<>> THEN <<>>
        ELSE SubSeq(separators, i + 1, Len(separators))

\* _split_text(text, separators)
RECURSIVE SplitTextRec(_, _, _)
RECURSIVE SplitLoop(_, _, _, _, _)
SplitLoop(sp, splits, new_separators, good_splits, final_chunks) ==
    IF splits = <<>>
    THEN final_chunks
         \o (IF good_splits # <<>> THEN MergeSplits(sp, good_splits) ELSE <<>>)
    ELSE LET s == Head(splits)
             merged == IF good_splits # <<>>
                       THEN MergeSplits(sp, good_splits) ELSE <<>>
         IN  IF Len(s) < sp.chunk_size
             THEN SplitLoop(sp, Tail(splits), new_separators,
                            Append(good_splits, s), final_chunks)
             ELSE SplitLoop(sp, Tail(splits), new_separators, <<>>,
                            final_chunks \o merged
                            \o (IF new_separators = <<>> THEN <<s>>
                                ELSE SplitTextRec(sp, s, new_separators)))

SplitTextRec(sp, text, separators) ==
    SplitLoop(sp, SplitWithRegex(text, Separator(text, separators)),
              NewSeparators(text, separators), <<>>, <<>>)

\* split_text(text)
SplitText(sp, text) == SplitTextRec(sp, text, sp.separators)

\* split_documents(docs): the chunks of each document in order, each with
\* the document's metadata
RECURSIVE SplitDocuments(_, _)
SplitDocuments(sp, docs) ==
    IF docs = <<>> THEN <<>>
    ELSE LET texts == SplitText(sp, Head(docs).page_content)
         IN  [k \in 1..Len(texts) |->
                 [page_content |-> texts[k], metadata |-> Head(docs).metadata]]
             \o SplitDocuments(sp, Tail(docs))

-----------------------------------------------------------------------------
(* Build script: inputs *)

MaxRecs == 2      \* records per JSON array
MaxRuns == 2      \* completed runs of the build script on the same files

BuildChunkSize == 1000
BuildChunkOverlap == 100

\* the fields of an accident case in the order lines 27-38 read them, and
\* their labels (each a token for the Korean label and ":", then a space)
AccidentFields ==
    <<"title", "date", "location", "industry", "work_type", "accident_type",
      "damage", "summary", "direct_cause", "root_cause", "risk_keywords",
      "prevention">>

AccidentLabels ==
    << <<"jemok:", " ">>, <<"balsaengilja:", " ">>, <<"balsaengjangso:", " ">>,
       <<"eopjong:", " ">>, <<"jageopyuhyeong:", " ">>,
       <<"jaehaehyeongtae:", " ">>, <<"pihaejeongdo:", " ">>,
       <<"sagogaeyo:", " ">>, <<"jikjeobwonin:", " ">>,
       <<"geunbonwonin:", " ">>, <<"wiheomyoin", " ", "kiwodeu:", " ">>,
       <<"yebangdaechaek:", " ">> >>

\* the fields of an education item in the order lines 53-60 read them
EducationFields ==
    <<"title", "date", "doc_number", "type", "keywords", "content", "url",
      "file_url">>

EducationLabels ==
    << <<"jemok:", " ">>, <<"jakseongilja:", " ">>, <<"balganbeonho:", " ">>,
       <<"jaryohyeongtae:", " ">>, <<"kiwodeu:", " ">>, <<"naeyong:", " ">>,
       <<"URL:", " ">>, <<"cheombupail:", " ">> >>

FieldSet(fields) == {fields[k] : k \in 1..Len(fields)}

\* A JSON record is a function from the keys it has to string values.
\* The sample records give the k-th field the value ValuePool[(k + seed) mod
\* n], so that neighbouring fields differ, and have every key or lack the
\* first or the last one.
ValuePool == << <<"a">>, <<"b">>, <<"c", " ">>, <<>> >>

Seeds == {0, 1}

FieldValue(seed, k) == ValuePool[((k + seed) % Len(ValuePool)) + 1]

SampleRecord(fields, seed, missing) ==
    [f \in FieldSet(fields) \ missing |->
        FieldValue(seed, CHOOSE k \in 1..Len(fields) : fields[k] = f)]

SampleRecords(fields) ==
    {SampleRecord(fields, seed, missing) :
        seed \in Seeds,
        missing \in {{}, {fields[1]}, {fields[Len(fields)]}}}

\* the sample PDFs, each the texts of its pages; <<>> is a page with no
\* extractable text
PageOfTwoClauses ==
    <<"x", "J", "1", "Z", "\n", "x", "J", "1", "1", "Z", " ">>

SamplePdfs ==
    { <<>>,
      << <<>> >>,
      << <<"x", " ">> >>,
      << PageOfTwoClauses >>,
      << <<"x", " ">>, <<"J", "1", "Z", "x">> >>,
      << PageOfTwoClauses, <<>>, <<"J", "Z">> >> }

\* what a file can hold: it is missing or malformed (open, json.load or the
\* PDF loader raises), or it has content
Unreadable == {[state |-> "missing"], [state |-> "malformed"]}

FileContents(S) == Unreadable \cup {[state |-> "ok", content |-> c] : c \in S}

AccidentFiles == FileContents(SeqsUpTo(SampleRecords(AccidentFields), MaxRecs))

EducationFiles == FileContents(SeqsUpTo(SampleRecords(EducationFields), MaxRecs))

LawPdfs == FileContents(SamplePdfs)

\* The content of a file is settled when the script first opens it and is
\* the same in every later run.
Unread == [state |-> "unread"]

Opened(file, choices) == IF file = Unread THEN choices ELSE {file}

-----------------------------------------------------------------------------
(* Build script: steps *)

\* the f-string of lines 26-39 / 52-61: label and value of every field in
\* order, joined by "\n"; reading a key the record lacks raises KeyError
HasAllFields(rec, fields) == FieldSet(fields) \subseteq DOMAIN rec

RenderSwapped(rec, fields, labels) ==
    Join(<<"\n">>, [k \in 1..Len(fields) |->
        labels[k] \o rec[fields[IF k = 1 THEN 2 ELSE IF k = 2 THEN 1 ELSE k]]])

Render(rec, fields, labels) ==
    Join(<<"\n">>, [k \in 1..Len(fields) |-> labels[k] \o rec[fields[k]]])

RecordDoc(rec, fields, labels, type) ==
    [page_content |-> Render(rec, fields, labels),
     metadata |-> [type |-> type, title |-> rec["title"]]]

BuildSplitter ==
    [chunk_size |-> BuildChunkSize, chunk_overlap |-> BuildChunkOverlap,
     separators |-> << <<"\n", "\n">>, <<"\n">>, <<" ">>, <<>> >>]

\* lines 21-22: open and json.load
LoadAccident ==
    /\ pc = "load_accident"
    /\ \E f \in Opened(files.accident, AccidentFiles) :
        /\ files' = [files EXCEPT !.accident = f]
        /\ IF f.state = "ok"
           THEN /\ accident_cases' = f.content
                /\ pc' = "accident_loop"
           ELSE /\ pc' = "aborted"
                /\ UNCHANGED accident_cases
    /\ UNCHANGED <<accident_docs, education_data, edu_docs, full_text,
                   law_docs, all_docs, store, completed, cliVars, splitterVars>>

\* A loop that skips a record lacking a field instead of raising.
AccidentLoopSkipping ==
    /\ pc = "accident_loop"
    /\ IF accident_cases = <<>>
       THEN /\ pc' = "load_education"
            /\ UNCHANGED <<accident_cases, accident_docs>>
       ELSE IF HasAllFields(Head(accident_cases), AccidentFields)
       THEN /\ accident_docs' =
                   Append(accident_docs,
                          RecordDoc(Head(accident_cases), AccidentFields,
                                    AccidentLabels, "accident"))
            /\ accident_cases' = Tail(accident_cases)
            /\ UNCHANGED pc
       ELSE /\ accident_cases' = Tail(accident_cases)
            /\ UNCHANGED <<pc, accident_docs>>
    /\ UNCHANGED <<files, education_data, edu_docs, full_text, law_docs,
                   all_docs, store, completed, cliVars, splitterVars>>

\* lines 25-40: one iteration of the loop over accident_cases, or its end
AccidentLoop ==
    /\ pc = "accident_loop"
    /\ LET i == Len(accident_docs) + 1
       IN  IF i > Len(accident_cases)
           THEN /\ pc' = "load_education"
                /\ UNCHANGED accident_docs
           ELSE IF HasAllFields(accident_cases[i], AccidentFields)
           THEN /\ accident_docs' =
                       Append(accident_docs,
                              RecordDoc(accident_cases[i], AccidentFields,
                                        AccidentLabels, "accident"))
                /\ UNCHANGED pc
           ELSE /\ pc' = "aborted"
                /\ UNCHANGED accident_docs
    /\ UNCHANGED <<files, accident_cases, education_data, edu_docs, full_text,
                   law_docs, all_docs, store, completed, cliVars, splitterVars>>

\* lines 47-48
LoadEducation ==
    /\ pc = "load_education"
    /\ \E f \in Opened(files.education, EducationFiles) :
        /\ files' = [files EXCEPT !.education = f]
        /\ IF f.state = "ok"
           THEN /\ education_data' = f.content
                /\ pc' = "education_loop"
           ELSE /\ pc' = "aborted"
                /\ UNCHANGED education_data
    /\ UNCHANGED <<accident_cases, accident_docs, edu_docs, full_text,
                   law_docs, all_docs, store, completed, cliVars, splitterVars>>

\* lines 51-62
EducationLoop ==
    /\ pc = "education_loop"
    /\ LET i == Len(edu_docs) + 1
       IN  IF i > Len(education_data)
           THEN /\ pc' = "load_pdf"
                /\ UNCHANGED edu_docs
           ELSE IF HasAllFields(education_data[i], EducationFields)
           THEN /\ edu_docs' =
                       Append(edu_docs,
                              RecordDoc(education_data[i], EducationFields,
                                        EducationLabels, "education"))
                /\ UNCHANGED pc
           ELSE /\ pc' = "aborted"
                /\ UNCHANGED edu_docs
    /\ UNCHANGED <<files, accident_cases, accident_docs, education_data,
                   full_text, law_docs, all_docs, store, completed, cliVars, splitterVars>>

\* lines 69-72: load the pages and join their texts with "\n"
LoadPdf ==
    /\ pc = "load_pdf"
    /\ \E f \in Opened(files.law, LawPdfs) :
        /\ files' = [files EXCEPT !.law = f]
        /\ IF f.state = "ok"
           THEN /\ full_text' = Join(<<"\n">>, f.content)
                /\ pc' = "segment"
           ELSE /\ pc' = "aborted"
                /\ UNCHANGED full_text
    /\ UNCHANGED <<accident_cases, accident_docs, education_data, edu_docs,
                   law_docs, all_docs, store, completed, cliVars, splitterVars>>

\* lines 73-90
SegmentLaw ==
    /\ pc = "segment"
    /\ law_docs' = LawDocs(full_text)
    /\ pc' = "chunk"
    /\ UNCHANGED <<files, accident_cases, accident_docs, education_data,
                   edu_docs, full_text, all_docs, store, completed, cliVars, splitterVars>>

\* lines 95-102
ChunkAll ==
    /\ pc = "chunk"
    /\ all_docs' = SplitDocuments(BuildSplitter, accident_docs)
                   \o SplitDocuments(BuildSplitter, edu_docs)
                   \o SplitDocuments(BuildSplitter, law_docs)
    /\ pc' = "index"
    /\ UNCHANGED <<files, accident_cases, accident_docs, education_data,
                   edu_docs, full_text, law_docs, store, completed, cliVars, splitterVars>>

\* the vector the embedding provider returns for a text: opaque
Embedding(text) == <<"text-embedding-3-small", text>>

\* the entry Chroma adds for the k-th document of a batch added to a
\* collection that holds n entries: a fresh id (a uuid), the text, its
\* vector and the metadata
Entry(n, k, doc) ==
    [id |-> n + k, page_content |-> doc.page_content,
     embedding |-> Embedding(doc.page_content), metadata |-> doc.metadata]

\* A store that replaces the collection instead of adding to it.
AddedReplacing(entries, docs) == [k \in 1..Len(docs) |-> Entry(0, k, docs[k])]

\* the collection after from_documents adds docs to it
Added(entries, docs) ==
    entries \o [k \in 1..Len(docs) |-> Entry(Len(entries), k, docs[k])]

\* lines 107-113: embed every chunk and add it to the collection of
\* CHROMA_DB_DIR; an error of the provider or the store aborts the run
FromDocuments ==
    /\ pc = "index"
    /\ \/ /\ store' = Added(store, all_docs)
          /\ pc' = "persist"
       \/ /\ pc' = "aborted"
          /\ UNCHANGED store
    /\ UNCHANGED <<files, accident_cases, accident_docs, education_data,
                   edu_docs, full_text, law_docs, all_docs, completed, cliVars,
                   splitterVars>>

\* lines 115-116
Persist ==
    /\ pc = "persist"
    /\ pc' = "done"
    /\ completed' = completed + 1
    /\ UNCHANGED <<files, accident_cases, accident_docs, education_data,
                   edu_docs, full_text, law_docs, all_docs, store, cliVars,
                   splitterVars>>

\* the script is run again on the same files: a new process, whose
\* variables start afresh; only the files and the store directory remain
Rerun ==
    /\ pc \in {"done", "aborted"}
    /\ completed < MaxRuns
    /\ pc' = "load_accident"
    /\ accident_cases' = <<>>
    /\ accident_docs' = <<>>
    /\ education_data' = <<>>
    /\ edu_docs' = <<>>
    /\ full_text' = <<>>
    /\ law_docs' = <<>>
    /\ all_docs' = <<>>
    /\ UNCHANGED <<files, store, completed, cliVars, splitterVars>>

BuildStart ==
    /\ pc = "load_accident"
    /\ files = [accident |-> Unread, education |-> Unread, law |-> Unread]
    /\ accident_cases = <<>>
    /\ accident_docs = <<>>
    /\ education_data = <<>>
    /\ edu_docs = <<>>
    /\ full_text = <<>>
    /\ law_docs = <<>>
    /\ all_docs = <<>>
    /\ store = <<>>
    /\ completed = 0

\* the build script is not running
BuildIdle ==
    /\ pc = "idle"
    /\ files = [accident |-> Unread, education |-> Unread, law |-> Unread]
    /\ accident_cases = <<>>
    /\ accident_docs = <<>>
    /\ education_data = <<>>
    /\ edu_docs = <<>>
    /\ full_text = <<>>
    /\ law_docs = <<>>
    /\ all_docs = <<>>
    /\ store = <<>>
    /\ completed = 0

-----------------------------------------------------------------------------
(* Chunk script (scripts/pdf_chunking.py) *)

MaxArgc == 4      \* len(sys.argv) ranges over 1..MaxArgc

ScriptChunkSize == 800
ScriptChunkOverlap == 100

ScriptSplitter ==
    [chunk_size |-> ScriptChunkSize, chunk_overlap |-> ScriptChunkOverlap,
     separators |-> << <<"\n", "\n">>, <<"\n">>, <<".", " ">>, <<" ">>, <<>> >>]

\* PyPDFLoader.load(): one Document per page, with its source and page index
PageDocs(pages) ==
    [k \in 1..Len(pages) |->
        [page_content |-> pages[k],
         metadata |-> [source |-> "pdf_path", page |-> k - 1]]]

\* lines 35-45: the JSON object of the i-th chunk (i counts from 0)
ChunkObject(i, chunk) ==
    [chunk_id |-> i,
     page_number |-> chunk.metadata.page,
     source |-> chunk.metadata.source,
     content |-> chunk.page_content,
     title |-> <<"title_prefix", i + 1>>,
     category |-> "category",
     type |-> "regulation"]

NotWritten == [state |-> "none"]

ArgcBadAtLeast(n) == n < 3

\* line 61
ArgcBad(n) == n # 3

\* lines 61-66: the argument check
CliMain ==
    /\ cli_pc = "main"
    /\ IF ArgcBad(argc)
       THEN /\ stdout' = Append(stdout, <<"usage">>)
            /\ exit_status' = <<1>>
            /\ cli_pc' = "exited"
       ELSE /\ cli_pc' = "load"
            /\ UNCHANGED <<stdout, exit_status>>
    /\ UNCHANGED <<argc, pdf_file, out_writable, documents, chunks,
                   output_file, chunk_count, buildVars, splitterVars>>

\* lines 14-20 and, when the loader raises, lines 56-58
CliLoad ==
    /\ cli_pc = "load"
    /\ IF pdf_file.state = "ok"
       THEN /\ documents' = PageDocs(pdf_file.content)
            /\ stdout' = stdout \o << <<"loading">>,
                                      <<"pages", Len(pdf_file.content)>> >>
            /\ cli_pc' = "split"
            /\ UNCHANGED chunk_count
       ELSE /\ stdout' = stdout \o << <<"loading">>, <<"error">> >>
            /\ chunk_count' = 0
            /\ cli_pc' = "returned"
            /\ UNCHANGED documents
    /\ UNCHANGED <<argc, pdf_file, out_writable, chunks, output_file,
                   exit_status, buildVars, splitterVars>>

\* lines 23-45
CliSplit ==
    /\ cli_pc = "split"
    /\ LET chunked_docs == SplitDocuments(ScriptSplitter, documents)
       IN  /\ chunks' = [k \in 1..Len(chunked_docs) |->
                            ChunkObject(k - 1, chunked_docs[k])]
           /\ stdout' = Append(stdout, <<"chunked", Len(chunked_docs)>>)
    /\ cli_pc' = "write"
    /\ UNCHANGED <<argc, pdf_file, out_writable, documents, output_file,
                   chunk_count, exit_status, buildVars, splitterVars>>

\* lines 48-54 and, when open or json.dump raises, lines 56-58
CliWrite ==
    /\ cli_pc = "write"
    /\ IF out_writable
       THEN /\ output_file' = [state |-> "written", content |-> chunks]
            /\ stdout' = stdout \o << <<"saved">>, <<"created", Len(chunks)>> >>
            /\ chunk_count' = Len(chunks)
       ELSE /\ stdout' = Append(stdout, <<"error">>)
            /\ chunk_count' = 0
            /\ UNCHANGED output_file
    /\ cli_pc' = "returned"
    /\ UNCHANGED <<argc, pdf_file, out_writable, documents, chunks,
                   exit_status, buildVars, splitterVars>>

\* lines 68-69: print the count summary; the script ends, status 0
CliSummary ==
    /\ cli_pc = "returned"
    /\ stdout' = Append(stdout, <<"summary", chunk_count>>)
    /\ exit_status' = <<0>>
    /\ cli_pc' = "exited"
    /\ UNCHANGED <<argc, pdf_file, out_writable, documents, chunks,
                   output_file, chunk_count, buildVars, splitterVars>>

\* exit_status of a process that has not exited
NoStatus == <<>>

CliStart ==
    /\ cli_pc = "main"
    /\ argc \in 1..MaxArgc
    /\ pdf_file \in LawPdfs
    /\ out_writable \in BOOLEAN
    /\ documents = <<>>
    /\ chunks = <<>>
    /\ output_file = NotWritten
    /\ stdout = <<>>
    /\ chunk_count = 0
    /\ exit_status = NoStatus

\* the chunk script is not running
CliIdle ==
    /\ cli_pc = "idle"
    /\ argc = 0
    /\ pdf_file = [state |-> "missing"]
    /\ out_writable = FALSE
    /\ documents = <<>>
    /\ chunks = <<>>
    /\ output_file = NotWritten
    /\ stdout = <<>>
    /\ chunk_count = 0
    /\ exit_status = NoStatus

-----------------------------------------------------------------------------
(* The splitter on its own *)

MaxTextLen == 5    \* length of the texts split_text is applied to
MaxStepLen == 3    \* length of the texts split_text is stepped through on
MaxChunkSize == 3  \* chunk_size ranges over 1..MaxChunkSize

SplitAlphabet == {"a", ".", " ", "\n"}

\* the splitters with chunk_overlap < chunk_size and the separators of
\* either script
Splitters ==
    {[chunk_size |-> n, chunk_overlap |-> o, separators |-> seps] :
        n \in 1..MaxChunkSize, o \in 0..(MaxChunkSize - 1),
        seps \in {BuildSplitter.separators, ScriptSplitter.separators}}

ValidSplitters == {s \in Splitters : s.chunk_overlap < s.chunk_size}

\* split_text(text), as one step
ApplySplitText ==
    /\ sp_pc = "apply"
    /\ sp_chunks' = SplitText(splitter, sp_text)
    /\ sp_pc' = "applied"
    /\ UNCHANGED <<sp_text, splitter, sp_stack, sp_merge, buildVars, cliVars>>

NoMerge == [splits |-> <<>>, current_doc |-> <<>>, docs |-> <<>>]

SplitterIdle ==
    /\ sp_pc = "idle"
    /\ sp_text = <<>>
    /\ splitter = BuildSplitter
    /\ sp_chunks = <<>>
    /\ sp_stack = <<>>
    /\ sp_merge = NoMerge

(* split_text(text), step by step: sp_stack holds one frame                *)
(* [splits, new_separators, good_splits] per active call of _split_text    *)
(* (splits: what its for loop has still to visit), sp_merge the locals of  *)
(* the running _merge_splits (splits: what its for loop has still to       *)
(* visit), and sp_chunks every chunk appended to a final_chunks so far:    *)
(* a call extends its caller's final_chunks with its own, in order.        *)

Frame(text, separators) ==
    [splits |-> SplitWithRegex(text, Separator(text, separators)),
     new_separators |-> NewSeparators(text, separators),
     good_splits |-> <<>>]

Top == sp_stack[Len(sp_stack)]

SetTop(frame) == [sp_stack EXCEPT ![Len(sp_stack)] = frame]

\* split_text(text) is called on a splitter with chunk_overlap < chunk_size
\* and calls _split_text(text, self._separators)
StepCall ==
    /\ sp_pc = "start"
    /\ sp_text' \in SeqsUpTo(SplitAlphabet, MaxStepLen)
    /\ splitter' \in ValidSplitters
    /\ sp_stack' = <<Frame(sp_text', splitter'.separators)>>
    /\ sp_pc' = "for"
    /\ UNCHANGED <<sp_chunks, sp_merge, buildVars, cliVars>>

\* for s in splits, len(s) < chunk_size: _good_splits.append(s)
StepGood ==
    /\ sp_pc = "for"
    /\ Top.splits # <<>>
    /\ Len(Head(Top.splits)) < splitter.chunk_size
    /\ sp_stack' = SetTop([Top EXCEPT !.splits = Tail(@),
                                      !.good_splits = Append(@, Head(Top.splits))])
    /\ UNCHANGED <<sp_pc, sp_text, splitter, sp_chunks, sp_merge, buildVars,
                   cliVars>>

\* _merge_splits(_good_splits, "") is called and _good_splits emptied:
\* before a long split is handled, or after the for loop
StepMerge ==
    /\ sp_pc = "for"
    /\ Top.good_splits # <<>>
    /\ IF Top.splits = <<>> THEN TRUE
       ELSE Len(Head(Top.splits)) >= splitter.chunk_size
    /\ sp_merge' = [splits |-> Top.good_splits, current_doc |-> <<>>,
                    docs |-> <<>>]
    /\ sp_stack' = SetTop([Top EXCEPT !.good_splits = <<>>])
    /\ sp_pc' = "merge_for"
    /\ UNCHANGED <<sp_text, splitter, sp_chunks, buildVars, cliVars>>

\* a long split and no separators left: final_chunks.append(s)
StepKeep ==
    /\ sp_pc = "for"
    /\ Top.good_splits = <<>>
    /\ Top.splits # <<>>
    /\ Len(Head(Top.splits)) >= splitter.chunk_size
    /\ Top.new_separators = <<>>
    /\ sp_chunks' = Append(sp_chunks, Head(Top.splits))
    /\ sp_stack' = SetTop([Top EXCEPT !.splits = Tail(@)])
    /\ UNCHANGED <<sp_pc, sp_text, splitter, sp_merge, buildVars, cliVars>>

\* a long split and separators left: _split_text(s, new_separators)
StepRecurse ==
    /\ sp_pc = "for"
    /\ Top.good_splits = <<>>
    /\ Top.splits # <<>>
    /\ Len(Head(Top.splits)) >= splitter.chunk_size
    /\ Top.new_separators # <<>>
    /\ sp_stack' = Append(SetTop([Top EXCEPT !.splits = Tail(@)]),
                          Frame(Head(Top.splits), Top.new_separators))
    /\ UNCHANGED <<sp_pc, sp_text, splitter, sp_chunks, sp_merge, buildVars,
                   cliVars>>

\* return final_chunks
StepReturn ==
    /\ sp_pc = "for"
    /\ Top.good_splits = <<>>
    /\ Top.splits = <<>>
    /\ sp_stack' = SubSeq(sp_stack, 1, Len(sp_stack) - 1)
    /\ sp_pc' = IF Len(sp_stack) = 1 THEN "done" ELSE "for"
    /\ UNCHANGED <<sp_text, splitter, sp_chunks, sp_merge, buildVars, cliVars>>

\* _merge_splits, for d in splits: d is appended to current_doc, unless it
\* does not fit; then current_doc is joined into a doc and the while loop
\* is entered
MergeFor ==
    /\ sp_pc = "merge_for"
    /\ sp_merge.splits # <<>>
    /\ LET d == Head(sp_merge.splits)
       IN  IF Total(sp_merge.current_doc) + Len(d) > splitter.chunk_size
              /\ sp_merge.current_doc # <<>>
           THEN /\ sp_merge' = [sp_merge EXCEPT
                                   !.docs = @ \o JoinDocs(sp_merge.current_doc)]
                /\ sp_pc' = "merge_while"
           ELSE /\ sp_merge' = [sp_merge EXCEPT !.splits = Tail(@),
                                                !.current_doc = Append(@, d)]
                /\ UNCHANGED sp_pc
    /\ UNCHANGED <<sp_text, splitter, sp_chunks, sp_stack, buildVars, cliVars>>

\* _merge_splits, one test of the while loop: a pop, or the loop ends and
\* d is appended to current_doc
MergeWhile ==
    /\ sp_pc = "merge_while"
    /\ LET d == Head(sp_merge.splits)
       IN  IF PopWhile(splitter, sp_merge.current_doc, Len(d))
           THEN /\ sp_merge' = [sp_merge EXCEPT !.current_doc = Popped(@)]
                /\ UNCHANGED sp_pc
           ELSE /\ sp_merge' = [sp_merge EXCEPT !.splits = Tail(@),
                                                !.current_doc = Append(@, d)]
                /\ sp_pc' = "merge_for"
    /\ UNCHANGED <<sp_text, splitter, sp_chunks, sp_stack, buildVars, cliVars>>

\* _merge_splits after its for loop: the last doc is joined, the docs are
\* returned and final_chunks is extended with them
MergeReturn ==
    /\ sp_pc = "merge_for"
    /\ sp_merge.splits = <<>>
    /\ sp_chunks' = sp_chunks \o sp_merge.docs \o JoinDocs(sp_merge.current_doc)
    /\ sp_merge' = NoMerge
    /\ sp_pc' = "for"
    /\ UNCHANGED <<sp_text, splitter, sp_stack, buildVars, cliVars>>


-----------------------------------------------------------------------------
(* Specifications *)

\* the build script, run up to MaxRuns times on the same files
Init == BuildStart /\ CliIdle /\ SplitterIdle

Next ==
    \/ LoadAccident
    \/ AccidentLoop
    \/ LoadEducation
    \/ EducationLoop
    \/ LoadPdf
    \/ SegmentLaw
    \/ ChunkAll
    \/ FromDocuments
    \/ Persist
    \/ Rerun

Spec == Init /\ [][Next]_vars

\* the segmentation of step 4 applied to every text over SegAlphabet
MaxLawLen == 7

SegAlphabet == {"J", "1", "Z", "x", "\n"}

InitSegment ==
    /\ pc = "segment"
    /\ full_text \in SeqsUpTo(SegAlphabet, MaxLawLen)
    /\ files = [accident |-> Unread, education |-> Unread, law |-> Unread]
    /\ accident_cases = <<>>
    /\ accident_docs = <<>>
    /\ education_data = <<>>
    /\ edu_docs = <<>>
    /\ law_docs = <<>>
    /\ all_docs = <<>>
    /\ store = <<>>
    /\ completed = 0
    /\ CliIdle /\ SplitterIdle

SpecSegment == InitSegment /\ [][SegmentLaw]_vars

\* the chunk script
InitCli == BuildIdle /\ CliStart /\ SplitterIdle

NextCli ==
    \/ CliMain
    \/ CliLoad
    \/ CliSplit
    \/ CliWrite
    \/ CliSummary

SpecCli == InitCli /\ [][NextCli]_vars

\* split_text applied to every text over SplitAlphabet
InitSplit ==
    /\ BuildIdle /\ CliIdle
    /\ sp_pc = "apply"
    /\ sp_text \in SeqsUpTo(SplitAlphabet, MaxTextLen)
    /\ splitter \in ValidSplitters
    /\ sp_chunks = <<>>
    /\ sp_stack = <<>>
    /\ sp_merge = NoMerge

SpecSplit == InitSplit /\ [][ApplySplitText]_vars

\* split_text stepped through on every text over SplitAlphabet; a running
\* call takes its next step
InitSteps ==
    /\ BuildIdle /\ CliIdle
    /\ sp_pc = "start"
    /\ sp_text = <<>>
    /\ splitter = BuildSplitter
    /\ sp_chunks = <<>>
    /\ sp_stack = <<>>
    /\ sp_merge = NoMerge

NextSteps ==
    \/ StepCall
    \/ StepGood
    \/ StepMerge
    \/ StepKeep
    \/ StepRecurse
    \/ StepReturn
    \/ MergeFor
    \/ MergeWhile
    \/ MergeReturn

SpecSteps == InitSteps /\ [][NextSteps]_vars /\ WF_vars(NextSteps)

-----------------------------------------------------------------------------
(* Properties *)

Max(a, b) == IF a >= b THEN a ELSE b

\* a clause marker (je, one or more digits, jo) starts at index i of t
IsMarker(t, i) ==
    /\ t[i] = "J"
    /\ \E j \in (i + 2)..Len(t) :
        /\ t[j] = "Z"
        /\ \A k \in (i + 1)..(j - 1) : t[k] \in Digits

Markers(t) == {i \in 1..Len(t) : IsMarker(t, i)}

\* the k-th marker of t from the left
KthMarker(t, k) ==
    CHOOSE i \in Markers(t) : Cardinality({j \in Markers(t) : j < i}) = k - 1

\* the text from the k-th marker up to the next marker or the end
Clause(t, k) ==
    SubSeq(t, KthMarker(t, k),
           IF k = Cardinality(Markers(t)) THEN Len(t)
           ELSE KthMarker(t, k + 1) - 1)

\* s without the whitespace at its end
WithoutTrailingWhitespace(s) ==
    LET last == CHOOSE n \in 0..Len(s) :
                    /\ n = 0 \/ s[n] \notin Whitespace
                    /\ \A m \in (n + 1)..Len(s) : s[m] \in Whitespace
    IN  SubSeq(s, 1, last)

Segmented == pc \in {"chunk", "index", "persist", "done"}

\* C1 as stated: a text with k clause markers gives exactly k law
\* Documents, the i-th holding the text from the i-th marker up to
\* (not including) the next marker, or up to the end of the text.
C1_ClauseTextExact ==
    Segmented =>
        /\ Len(law_docs) = Cardinality(Markers(full_text))
        /\ \A k \in 1..Len(law_docs) :
            law_docs[k].page_content = Clause(full_text, k)

\* C1 amended: a text with k clause markers gives exactly k law Documents,
\* the i-th holding the text from the i-th marker up to the next marker (or
\* the end of the text) without its trailing whitespace; nothing before the
\* first marker is in a Document.
C1_ClauseTextStripped ==
    Segmented =>
        /\ Len(law_docs) = Cardinality(Markers(full_text))
        /\ \A k \in 1..Len(law_docs) :
            law_docs[k].page_content =
                WithoutTrailingWhitespace(Clause(full_text, k))

\* two clauses, the first of them followed by whitespace
C1_Witness ==
    /\ Segmented
    /\ Len(law_docs) = 2
    /\ law_docs[1].page_content # Clause(full_text, 1)

\* C2: when the text has no clause marker, segmentation gives no law
\* Document and raises nothing: the script goes on to chunking and from
\* there to indexing, law_docs being empty.
C2_NoMarkerNoError ==
    [][(pc \in {"segment", "chunk"} /\ Markers(full_text) = {})
        => (pc' \in {"chunk", "index"} /\ law_docs' = <<>>)]_vars

\* a run over a text without markers reached its last line
C2_Witness ==
    /\ pc = "done"
    /\ full_text # <<>>
    /\ Markers(full_text) = {}
    /\ law_docs = <<>>

\* index of the first occurrence of s in t at or after index from, 0 if none
RECURSIVE FirstAt(_, _, _)
FirstAt(s, t, from) ==
    IF from + Len(s) - 1 > Len(t) THEN 0
    ELSE IF \A k \in 1..Len(s) : t[from + k - 1] = s[k] THEN from
    ELSE FirstAt(s, t, from + 1)

\* the strings of vals occur in t one after the other, without overlap
RECURSIVE InOrder(_, _, _)
InOrder(vals, t, from) ==
    IF vals = <<>> THEN TRUE
    ELSE LET i == FirstAt(Head(vals), t, from)
         IN  i # 0 /\ InOrder(Tail(vals), t, i + Len(Head(vals)))

\* doc is the Document of the record rec
DocumentOf(doc, rec, fields, type) ==
    /\ InOrder([k \in 1..Len(fields) |-> rec[fields[k]]], doc.page_content, 1)
    /\ doc.metadata = [type |-> type, title |-> rec["title"]]

\* C6: the Documents are those of the array's records, one each, in array
\* order: the text of each holds the values of all its fields in the fixed
\* field order, its metadata the category and the record's title; after
\* the loop over an array there are as many Documents as records.
C6_OneDocumentPerRecord ==
    /\ Len(accident_docs) <= Len(accident_cases)
    /\ \A i \in 1..Len(accident_docs) :
        DocumentOf(accident_docs[i], accident_cases[i], AccidentFields,
                   "accident")
    /\ Len(edu_docs) <= Len(education_data)
    /\ \A i \in 1..Len(edu_docs) :
        DocumentOf(edu_docs[i], education_data[i], EducationFields,
                   "education")
    /\ pc \in {"load_education", "education_loop", "load_pdf", "segment",
               "chunk", "index", "persist", "done"}
        => Len(accident_docs) = Len(accident_cases)
    /\ pc \in {"load_pdf", "segment", "chunk", "index", "persist", "done"}
        => Len(edu_docs) = Len(education_data)

\* both arrays held two different records and both loops are over
C6_Witness ==
    /\ pc = "load_pdf"
    /\ Len(accident_docs) = 2
    /\ accident_docs[1] # accident_docs[2]
    /\ Len(edu_docs) = 2
    /\ edu_docs[1] # edu_docs[2]

\* the file holds a record that lacks one of the fields
HasPartialRecord(file, fields) ==
    /\ file.state = "ok"
    /\ \E i \in 1..Len(file.content) :
        \E f \in FieldSet(fields) : f \notin DOMAIN file.content[i]

Partial(rec, fields) == \E f \in FieldSet(fields) : f \notin DOMAIN rec

\* C7: with a record that lacks a field in either array, no Document is
\* made of that record, the run never gets to chunking, indexing or
\* persisting, and the store is as it was.
C7_PartialRecordFailsFast ==
    /\ (HasPartialRecord(files.accident, AccidentFields)
        \/ HasPartialRecord(files.education, EducationFields))
        => /\ pc \notin {"chunk", "index", "persist", "done"}
           /\ all_docs = <<>>
           /\ store = <<>>
    /\ \A i \in 1..Len(accident_docs) :
        ~ Partial(accident_cases[i], AccidentFields)
    /\ \A i \in 1..Len(edu_docs) :
        ~ Partial(education_data[i], EducationFields)
    /\ (pc = "accident_loop" /\ Len(accident_docs) < Len(accident_cases)
        /\ Partial(accident_cases[Len(accident_docs) + 1], AccidentFields))
        => ~ ENABLED (AccidentLoop /\ pc' # "aborted")
    /\ (pc = "education_loop" /\ Len(edu_docs) < Len(education_data)
        /\ Partial(education_data[Len(edu_docs) + 1], EducationFields))
        => ~ ENABLED (EducationLoop /\ pc' # "aborted")

\* the run stopped at the second education item, which lacks a field,
\* after the Document of the first was made
C7_Witness ==
    /\ pc = "aborted"
    /\ files.law = Unread
    /\ Len(accident_docs) = 2
    /\ Len(education_data) = 2
    /\ Len(edu_docs) = 1
    /\ Partial(education_data[2], EducationFields)

\* C10: a step never changes or removes an entry of the store, it only
\* adds entries after those there; so when a run ends, the store holds the
\* chunks of that run once per run completed, every later copy under ids
\* of its own.
C10_AppendOnlyDuplicates ==
    /\ [][/\ Len(store') >= Len(store)
          /\ SubSeq(store', 1, Len(store)) = store]_vars
    /\ [](pc = "done" =>
            /\ Len(store) = completed * Len(all_docs)
            /\ \A i \in 1..Len(store) :
                LET k == ((i - 1) % Len(all_docs)) + 1
                IN  /\ store[i].page_content = all_docs[k].page_content
                    /\ store[i].metadata = all_docs[k].metadata
            /\ \A i, j \in 1..Len(store) : i # j => store[i].id # store[j].id)

\* two runs have completed and the store holds each chunk twice
C10_Witness ==
    /\ pc = "done"
    /\ completed = 2
    /\ Len(all_docs) >= 2
    /\ Len(store) = 2 * Len(all_docs)

Last(seq) == seq[Len(seq)]

\* the chunk script failed inside chunk_pdf: the PDF could not be loaded,
\* or it was loaded and the output could not be written
ChunkPdfFailed == pdf_file.state # "ok" \/ ~ out_writable

\* C8: when the PDF cannot be loaded or the output cannot be written, the
\* chunk script does not end as a successful run does, with the count
\* summary printed and exit status 0.
C8_FailureIsNotSuccess ==
    (cli_pc = "exited" /\ argc = 3 /\ ChunkPdfFailed)
        => ~ (exit_status = <<0>> /\ Last(stdout)[1] = "summary")

\* C9: with len(sys.argv) other than 3 (two positional arguments) the
\* script prints the usage message and exits with status 1, and chunk_pdf
\* is not called: nothing is loaded, chunked or written; with two
\* arguments chunk_pdf is called, and when it succeeds the output is
\* written and the summary printed last gives the number of chunks.
C9_ArgumentCheck ==
    /\ argc # 3 =>
        /\ cli_pc \in {"main", "exited"}
        /\ documents = <<>> /\ chunks = <<>> /\ output_file = NotWritten
        /\ cli_pc = "exited" =>
            (stdout = << <<"usage">> >> /\ exit_status = <<1>>)
    /\ (argc = 3 /\ cli_pc = "exited") =>
        /\ stdout[1] = <<"loading">>
        /\ ~ ChunkPdfFailed =>
            /\ output_file = [state |-> "written", content |-> chunks]
            /\ Last(stdout) = <<"summary", Len(chunks)>>
            /\ exit_status = <<0>>

\* the script was given three positional arguments (len(sys.argv) = 4)
\* and has exited
C9_Witness ==
    /\ cli_pc = "exited"
    /\ argc = 4
    /\ pdf_file.state = "ok"
    /\ out_writable

\* sep occurs somewhere in t (the empty separator occurs in every text)
Occurs(sep, t) == \E i \in 1..(Len(t) + 1) : OccursAt(sep, t, i)

\* no separator of the splitter occurs in t: t cannot be split
Unsplittable(sp, t) ==
    \A k \in 1..Len(sp.separators) : ~ Occurs(sp.separators[k], t)

\* C3: no chunk is longer than chunk_size, unless it is a run that no
\* separator of the splitter splits.
C3_ChunkWithinSize ==
    sp_pc = "applied" =>
        \A k \in 1..Len(sp_chunks) :
            \/ Len(sp_chunks[k]) <= splitter.chunk_size
            \/ Unsplittable(splitter, sp_chunks[k])

\* a text longer than chunk_size was split into chunks, one of them full
C3_Witness ==
    /\ sp_pc = "applied"
    /\ Len(sp_text) > splitter.chunk_size
    /\ splitter.chunk_size >= 2
    /\ Len(sp_chunks) >= 2
    /\ \E k \in 1..Len(sp_chunks) : Len(sp_chunks[k]) = splitter.chunk_size

\* The chunks rebuild the text: laid over the text one after the other,
\* each starting no earlier than the one before it and where it occurs in
\* the text, they leave out only characters of gap between them, before
\* the first and after the last.  covered is the last index laid over so
\* far, start the index the previous chunk was laid at.
RECURSIVE RebuildsFrom(_, _, _, _, _)
RebuildsFrom(text, cs, start, covered, gap) ==
    IF cs = <<>>
    THEN \A i \in (covered + 1)..Len(text) : text[i] \in gap
    ELSE \E p \in start..Len(text) :
            /\ OccursAt(Head(cs), text, p)
            /\ \A i \in (covered + 1)..(p - 1) : text[i] \in gap
            /\ RebuildsFrom(text, Tail(cs), p,
                            Max(covered, p + Len(Head(cs)) - 1), gap)

Rebuilds(text, cs, gap) == RebuildsFrom(text, cs, 1, 0, gap)

FixedStride(sp, text, cs) ==
    \E first \in 1..(Len(text) + 1) :
        \A k \in 1..Len(cs) :
            OccursAt(cs[k], text,
                     first + (k - 1) * (sp.chunk_size - sp.chunk_overlap))

\* C5 as stated: split_text ends with chunks that cover the text, each
\* lying chunk_size - chunk_overlap after the one before it.
C5_FixedStrideWindows ==
    sp_pc = "done" =>
        /\ Rebuilds(sp_text, sp_chunks, Whitespace)
        /\ FixedStride(splitter, sp_text, sp_chunks)

\* C5 amended: with chunk_overlap < chunk_size, as in both scripts,
\* split_text ends after finitely many steps, with the chunks of
\* SplitText: finitely many, each starting no earlier than the one before
\* it, covering the text but for whitespace (not at a fixed stride).
C5_Terminates ==
    /\ <>(sp_pc = "done")
    /\ [](sp_pc = "done" =>
            /\ sp_chunks = SplitText(splitter, sp_text)
            /\ Len(sp_chunks) <= Len(sp_text)
            /\ Rebuilds(sp_text, sp_chunks, Whitespace))
    /\ [](BuildSplitter.chunk_overlap < BuildSplitter.chunk_size
          /\ ScriptSplitter.chunk_overlap < ScriptSplitter.chunk_size)

\* split_text ended after its while loop had popped, with several chunks
C5_Witness ==
    /\ sp_pc = "done"
    /\ splitter.chunk_overlap > 0
    /\ Len(sp_chunks) >= 2
    /\ ~ FixedStride(splitter, sp_text, sp_chunks)

====
